---------------------------- MODULE Spec2Model ----------------------------
(***************************************************************************)
(* A model of the resume-refiner backend: the taxonomy Skill Analyzer      *)
(* (backend/skill_analyzer.py) and the request handlers, the LLM           *)
(* augmentation step and the recommendation composer of backend/app.py.    *)
(*                                                                         *)
(* A Python str is a sequence of one-character strings, so that lower(),   *)
(* strip(), the `in` substring test and the \b regex anchors are computed  *)
(* character by character.  A Python value whose type matters (an          *)
(* argument that may be None or ill-typed) is a record [type, value].      *)
(***************************************************************************)
EXTENDS Integers, Sequences, FiniteSets, TLC

(***************************************************************************)
(* Python str                                                              *)
(***************************************************************************)

\* str.lower() on the ASCII letters
LowerMap ==
    "A" :> "a" @@ "B" :> "b" @@ "C" :> "c" @@ "D" :> "d" @@ "E" :> "e" @@ "F" :> "f" @@ "G" :> "g" @@ "H" :> "h" @@ "I" :> "i" @@ "J" :> "j" @@ "K" :> "k" @@ "L" :> "l" @@ "M" :> "m" @@
    "N" :> "n" @@ "O" :> "o" @@ "P" :> "p" @@ "Q" :> "q" @@ "R" :> "r" @@ "S" :> "s" @@ "T" :> "t" @@ "U" :> "u" @@ "V" :> "v" @@ "W" :> "w" @@ "X" :> "x" @@ "Y" :> "y" @@ "Z" :> "z"

LowerChar(c) == IF c \in DOMAIN LowerMap THEN LowerMap[c] ELSE c

\* lower() left out
LowerOmitted(s) == s

Lower(s) == [i \in 1..Len(s) |-> LowerChar(s[i])]

\* the characters matched by \w (ASCII letters, digits, underscore)
WordChars ==
    {"a", "b", "c", "d", "e", "f", "g", "h", "i", "j", "k", "l", "m", "n", "o", "p", "q", "r", "s", "t", "u", "v", "w", "x", "y", "z",
     "A", "B", "C", "D", "E", "F", "G", "H", "I", "J", "K", "L", "M", "N", "O", "P", "Q", "R", "S", "T", "U", "V", "W", "X", "Y", "Z",
     "0", "1", "2", "3", "4", "5", "6", "7", "8", "9", "_"}

\* str.isspace() characters that str.strip() removes
SpaceChars == {" ", "\n", "\t", "\r"}

\* code points, for the ordering of str used by sorted()
Ord ==
    "\t" :> 9 @@ "\n" :> 10 @@ " " :> 32 @@ "!" :> 33 @@ "#" :> 35 @@ "&" :> 38 @@ "'" :> 39 @@ "(" :> 40 @@
    ")" :> 41 @@ "+" :> 43 @@ "," :> 44 @@ "-" :> 45 @@ "." :> 46 @@ "/" :> 47 @@ "0" :> 48 @@ "1" :> 49 @@
    "2" :> 50 @@ "3" :> 51 @@ "4" :> 52 @@ "5" :> 53 @@ "6" :> 54 @@ "7" :> 55 @@ "8" :> 56 @@ "9" :> 57 @@
    ":" :> 58 @@ "A" :> 65 @@ "B" :> 66 @@ "C" :> 67 @@ "D" :> 68 @@ "E" :> 69 @@ "F" :> 70 @@ "G" :> 71 @@
    "H" :> 72 @@ "I" :> 73 @@ "J" :> 74 @@ "K" :> 75 @@ "L" :> 76 @@ "M" :> 77 @@ "N" :> 78 @@ "O" :> 79 @@
    "P" :> 80 @@ "Q" :> 81 @@ "R" :> 82 @@ "S" :> 83 @@ "T" :> 84 @@ "U" :> 85 @@ "V" :> 86 @@ "W" :> 87 @@
    "X" :> 88 @@ "Y" :> 89 @@ "Z" :> 90 @@ "_" :> 95 @@ "a" :> 97 @@ "b" :> 98 @@ "c" :> 99 @@ "d" :> 100 @@
    "e" :> 101 @@ "f" :> 102 @@ "g" :> 103 @@ "h" :> 104 @@ "i" :> 105 @@ "j" :> 106 @@ "k" :> 107 @@ "l" :> 108 @@
    "m" :> 109 @@ "n" :> 110 @@ "o" :> 111 @@ "p" :> 112 @@ "q" :> 113 @@ "r" :> 114 @@ "s" :> 115 @@ "t" :> 116 @@
    "u" :> 117 @@ "v" :> 118 @@ "w" :> 119 @@ "x" :> 120 @@ "y" :> 121 @@ "z" :> 122

\* a < b on str: lexicographic by code point
StrLess(a, b) ==
    \E i \in 1..Len(b) :
        /\ \A j \in 1..(i - 1) : j <= Len(a) /\ a[j] = b[j]
        /\ \/ i = Len(a) + 1
           \/ i <= Len(a) /\ Ord[a[i]] < Ord[b[i]]

\* sorted(xs) for a list of str
Sorted(xs) == SortSeq(xs, LAMBDA a, b : StrLess(a, b))

\* the elements of a set of str as a list; every use sorts the list or takes
\* its length or its set, so the iteration order of a Python set is not
\* observable
SetToSeq(S) ==
    [i \in 1..Cardinality(S) |->
        CHOOSE x \in S : Cardinality({y \in S : StrLess(y, x)}) = i - 1]

ToSet(xs) == {xs[i] : i \in 1..Len(xs)}

\* needle in haystack
Contains(haystack, needle) ==
    \/ Len(needle) = 0
    \/ \E i \in 1..(Len(haystack) - Len(needle) + 1) :
          /\ haystack[i] = needle[1]
          /\ SubSeq(haystack, i, i + Len(needle) - 1) = needle

RECURSIVE Join(_, _)
\* sep.join(parts)
Join(sep, parts) ==
    IF Len(parts) = 0 THEN <<>>
    ELSE IF Len(parts) = 1 THEN parts[1]
    ELSE parts[1] \o sep \o Join(sep, Tail(parts))

\* xs[:n] for n >= 0, and for n < 0 (all but the last -n)
Slice(xs, n) ==
    IF n >= 0 THEN SubSeq(xs, 1, IF n < Len(xs) THEN n ELSE Len(xs))
    ELSE SubSeq(xs, 1, Len(xs) + n)

Max(a, b) == IF a >= b THEN a ELSE b

(***************************************************************************)
(* Python values and dicts                                                 *)
(***************************************************************************)

None == [type |-> "NoneType"]
Str(s) == [type |-> "str", value |-> s]
PyInt(n) == [type |-> "int", value |-> n]
Dict(items) == [type |-> "dict", value |-> items]

\* bool(v) for the values above
Truthy(v) ==
    CASE v.type = "NoneType" -> FALSE
      [] v.type = "str" -> Len(v.value) > 0
      [] v.type = "int" -> v.value # 0
      [] v.type = "dict" -> Len(v.value) > 0

\* A dict is the list of its <<key, value>> items in insertion order.
EmptyDict == <<>>

Keys(d) == [i \in 1..Len(d) |-> d[i][1]]

HasKey(d, k) == \E i \in 1..Len(d) : d[i][1] = k

\* d.get(k, default)
Get(d, k, default) ==
    IF HasKey(d, k) THEN d[CHOOSE i \in 1..Len(d) : d[i][1] = k][2] ELSE default

\* a float that is a quotient of integers, kept exact: num / den
Rat(n, d) == [num |-> n, den |-> d]

RatEq(p, q) == p.num * q.den = q.num * p.den

RatLe(p, q) == p.num * q.den <= q.num * p.den

RatLt(p, q) == p.num * q.den < q.num * p.den

(***************************************************************************)
(* backend/skill_analyzer.py                                               *)
(***************************************************************************)

\* python, java, javascript, typescript, c++, c#, php, ruby, go, rust, swift, kotlin, scala, r, matlab, sql, perl, haskell
programming_languages ==
    {
      <<"p","y","t","h","o","n">>, <<"j","a","v","a">>, <<"j","a","v","a","s","c","r","i","p","t">>,
      <<"t","y","p","e","s","c","r","i","p","t">>, <<"c","+","+">>, <<"c","#">>,
      <<"p","h","p">>, <<"r","u","b","y">>, <<"g","o">>,
      <<"r","u","s","t">>, <<"s","w","i","f","t">>, <<"k","o","t","l","i","n">>,
      <<"s","c","a","l","a">>, <<"r">>, <<"m","a","t","l","a","b">>,
      <<"s","q","l">>, <<"p","e","r","l">>, <<"h","a","s","k","e","l","l">>
    }

\* html, css, sass, less, react, angular, vue, node.js, express, django, flask, spring, laravel, jquery, bootstrap, webpack, gatsby
web_technologies ==
    {
      <<"h","t","m","l">>, <<"c","s","s">>, <<"s","a","s","s">>,
      <<"l","e","s","s">>, <<"r","e","a","c","t">>, <<"a","n","g","u","l","a","r">>,
      <<"v","u","e">>, <<"n","o","d","e",".","j","s">>, <<"e","x","p","r","e","s","s">>,
      <<"d","j","a","n","g","o">>, <<"f","l","a","s","k">>, <<"s","p","r","i","n","g">>,
      <<"l","a","r","a","v","e","l">>, <<"j","q","u","e","r","y">>, <<"b","o","o","t","s","t","r","a","p">>,
      <<"w","e","b","p","a","c","k">>, <<"g","a","t","s","b","y">>
    }

\* mysql, postgresql, mongodb, redis, elasticsearch, oracle, sqlite, cassandra, dynamodb, neo4j, mariadb, couchdb, firebase
databases ==
    {
      <<"m","y","s","q","l">>, <<"p","o","s","t","g","r","e","s","q","l">>, <<"m","o","n","g","o","d","b">>,
      <<"r","e","d","i","s">>, <<"e","l","a","s","t","i","c","s","e","a","r","c","h">>, <<"o","r","a","c","l","e">>,
      <<"s","q","l","i","t","e">>, <<"c","a","s","s","a","n","d","r","a">>, <<"d","y","n","a","m","o","d","b">>,
      <<"n","e","o","4","j">>, <<"m","a","r","i","a","d","b">>, <<"c","o","u","c","h","d","b">>,
      <<"f","i","r","e","b","a","s","e">>
    }

\* aws, azure, gcp, docker, kubernetes, jenkins, gitlab, github actions, terraform, ansible, chef, puppet, circleci, nginx, apache
cloud_devops ==
    {
      <<"a","w","s">>, <<"a","z","u","r","e">>, <<"g","c","p">>,
      <<"d","o","c","k","e","r">>, <<"k","u","b","e","r","n","e","t","e","s">>, <<"j","e","n","k","i","n","s">>,
      <<"g","i","t","l","a","b">>, <<"g","i","t","h","u","b"," ","a","c","t","i","o","n","s">>, <<"t","e","r","r","a","f","o","r","m">>,
      <<"a","n","s","i","b","l","e">>, <<"c","h","e","f">>, <<"p","u","p","p","e","t">>,
      <<"c","i","r","c","l","e","c","i">>, <<"n","g","i","n","x">>, <<"a","p","a","c","h","e">>
    }

\* machine learning, deep learning, tensorflow, pytorch, scikit-learn, pandas, numpy, matplotlib, keras, opencv, nlp, computer vision
data_science_ml ==
    {
      <<"m","a","c","h","i","n","e"," ","l","e","a","r","n","i","n","g">>, <<"d","e","e","p"," ","l","e","a","r","n","i","n","g">>, <<"t","e","n","s","o","r","f","l","o","w">>,
      <<"p","y","t","o","r","c","h">>, <<"s","c","i","k","i","t","-","l","e","a","r","n">>, <<"p","a","n","d","a","s">>,
      <<"n","u","m","p","y">>, <<"m","a","t","p","l","o","t","l","i","b">>, <<"k","e","r","a","s">>,
      <<"o","p","e","n","c","v">>, <<"n","l","p">>, <<"c","o","m","p","u","t","e","r"," ","v","i","s","i","o","n">>
    }

\* leadership, communication, teamwork, problem solving, project management, analytical, time management, creativity, collaboration, adaptability
soft_skills ==
    {
      <<"l","e","a","d","e","r","s","h","i","p">>, <<"c","o","m","m","u","n","i","c","a","t","i","o","n">>, <<"t","e","a","m","w","o","r","k">>,
      <<"p","r","o","b","l","e","m"," ","s","o","l","v","i","n","g">>, <<"p","r","o","j","e","c","t"," ","m","a","n","a","g","e","m","e","n","t">>, <<"a","n","a","l","y","t","i","c","a","l">>,
      <<"t","i","m","e"," ","m","a","n","a","g","e","m","e","n","t">>, <<"c","r","e","a","t","i","v","i","t","y">>, <<"c","o","l","l","a","b","o","r","a","t","i","o","n">>,
      <<"a","d","a","p","t","a","b","i","l","i","t","y">>
    }

CategoryOrder ==
    <<"programming_languages", "web_technologies", "databases",
      "cloud_devops", "data_science_ml", "soft_skills">>

skill_categories ==
    [programming_languages |-> programming_languages,
     web_technologies |-> web_technologies,
     databases |-> databases,
     cloud_devops |-> cloud_devops,
     data_science_ml |-> data_science_ml,
     soft_skills |-> soft_skills]

all_skills == UNION {skill_categories[c] : c \in DOMAIN skill_categories}

\* the outcome of a Python block: a returned value or a raised exception
Return(v) == [kind |-> "return", value |-> v]

Raise(exc) == [kind |-> "raise", exc |-> exc]

IsWordAt(text, i) == i >= 1 /\ i <= Len(text) /\ text[i] \in WordChars

\* \b between text[i - 1] and text[i]
WordBoundary(text, i) == IsWordAt(text, i - 1) # IsWordAt(text, i)

\* re.search(r'\b' + re.escape(skill) + r'\b', text): re.escape makes the
\* term match literally
SearchSkill(skill, text) ==
    \E i \in 1..(Len(text) - Len(skill) + 1) :
        /\ text[i] = skill[1]
        /\ SubSeq(text, i, i + Len(skill) - 1) = skill
        /\ WordBoundary(text, i)
        /\ WordBoundary(text, i + Len(skill))

\* the defaultdict(list) filled by the two loops over skill_categories: a
\* category is inserted when its first skill is found
FindSkills(text_lower) ==
    LET found == [c \in DOMAIN skill_categories |->
                     {s \in skill_categories[c] : SearchSkill(s, text_lower)}]
        cats == SelectSeq(CategoryOrder, LAMBDA c : found[c] # {})
    IN  [i \in 1..Len(cats) |-> <<cats[i], SetToSeq(found[cats[i]])>>]

\* {category: sorted(skills) for category, skills in d.items()}
SortedValues(d) == [i \in 1..Len(d) |-> <<d[i][1], Sorted(d[i][2])>>]

RECURSIVE MatchedOf(_, _)
\* matched_skills after the loop over job_skills.items()
MatchedOf(found_skills, job_skills) ==
    IF Len(job_skills) = 0 THEN <<>>
    ELSE LET resume_skills == ToSet(Get(found_skills, job_skills[1][1], <<>>))
             job_skill_set == ToSet(job_skills[1][2])
         IN  SetToSeq(resume_skills \cap job_skill_set)
                 \o MatchedOf(found_skills, Tail(job_skills))

RECURSIVE MissingOfSwapped(_, _)
\* MissingOf with the difference taken the wrong way round
MissingOfSwapped(found_skills, job_skills) ==
    IF Len(job_skills) = 0 THEN <<>>
    ELSE LET resume_skills == ToSet(Get(found_skills, job_skills[1][1], <<>>))
             job_skill_set == ToSet(job_skills[1][2])
         IN  SetToSeq(resume_skills \ job_skill_set)
                 \o MissingOfSwapped(found_skills, Tail(job_skills))

RECURSIVE MissingOf(_, _)
\* missing_skills after the loop over job_skills.items()
MissingOf(found_skills, job_skills) ==
    IF Len(job_skills) = 0 THEN <<>>
    ELSE LET resume_skills == ToSet(Get(found_skills, job_skills[1][1], <<>>))
             job_skill_set == ToSet(job_skills[1][2])
         IN  SetToSeq(job_skill_set \ resume_skills)
                 \o MissingOf(found_skills, Tail(job_skills))

\* SkillMatchPercentage dividing by the number of job categories
SkillMatchPercentagePerCategory(matched_skills, job_skills) ==
    Rat(Len(matched_skills) * 100, Max(Len(job_skills), 1))

\* len(matched_skills) / max(len(set().union(*job sets)), 1) * 100
SkillMatchPercentage(matched_skills, job_skills) ==
    Rat(Len(matched_skills) * 100,
        Max(Cardinality(UNION {ToSet(job_skills[i][2]) : i \in 1..Len(job_skills)}), 1))

\* the try block of analyze_skills
AnalyzeSkillsTry(resume_text, job_description) ==
    IF resume_text.type # "str" THEN Raise("AttributeError")
    ELSE LET found_skills == FindSkills(Lower(resume_text.value))
         IN  IF Truthy(job_description)
             THEN IF job_description.type # "str" THEN Raise("AttributeError")
                  ELSE LET job_skills == FindSkills(Lower(job_description.value))
                           matched_skills == MatchedOf(found_skills, job_skills)
                           missing_skills == MissingOf(found_skills, job_skills)
                       IN  Return(<< <<"resume_skills", SortedValues(found_skills)>>,
                                     <<"job_skills", SortedValues(job_skills)>>,
                                     <<"matched_skills", Sorted(matched_skills)>>,
                                     <<"missing_skills", Sorted(missing_skills)>>,
                                     <<"skill_match_percentage",
                                       SkillMatchPercentage(matched_skills, job_skills)>> >>)
             ELSE Return(SortedValues(found_skills))

\* analyze_skills: except Exception returns {}
analyze_skills(resume_text, job_description) ==
    LET r == AnalyzeSkillsTry(resume_text, job_description)
    IN  IF r.kind = "raise" THEN Return(EmptyDict) ELSE r

RECURSIVE SkillGaps(_, _, _)
\* the loop of get_skill_gap over skill_categories.keys()
SkillGaps(cats, resume_skills, job_skills) ==
    IF Len(cats) = 0 THEN <<>>
    ELSE LET resume_set == ToSet(Get(resume_skills, cats[1], <<>>))
             job_set == ToSet(Get(job_skills, cats[1], <<>>))
             missing_skills == job_set \ resume_set
         IN  (IF missing_skills # {}
              THEN << <<cats[1], Sorted(SetToSeq(missing_skills))>> >>
              ELSE <<>>)
                 \o SkillGaps(Tail(cats), resume_skills, job_skills)

\* the try block of get_skill_gap
GetSkillGapTry(resume_text, job_description) ==
    LET resume_skills == analyze_skills(resume_text, None)
    IN  IF resume_skills.kind = "raise" THEN resume_skills
        ELSE LET job_skills == analyze_skills(job_description, None)
             IN  IF job_skills.kind = "raise" THEN job_skills
                 ELSE Return(SkillGaps(CategoryOrder, resume_skills.value,
                                       job_skills.value))

\* get_skill_gap: except Exception returns {}
get_skill_gap(resume_text, job_description) ==
    LET r == GetSkillGapTry(resume_text, job_description)
    IN  IF r.kind = "raise" THEN Return(EmptyDict) ELSE r

\* round(n / d * 100, 2) in hundredths, ties to even
RoundPercent(n, d) ==
    LET q == (n * 10000) \div d
        r == (n * 10000) % d
    IN  IF 2 * r < d THEN q
        ELSE IF 2 * r > d THEN q + 1
        ELSE q + (q % 2)

RECURSIVE TotalJobSkills(_)
TotalJobSkills(job_skills) ==
    IF Len(job_skills) = 0 THEN 0
    ELSE Len(job_skills[1][2]) + TotalJobSkills(Tail(job_skills))

RECURSIVE MatchedCount(_, _)
MatchedCount(resume_skills, job_skills) ==
    IF Len(job_skills) = 0 THEN 0
    ELSE (IF HasKey(resume_skills, job_skills[1][1])
          THEN Cardinality(ToSet(Get(resume_skills, job_skills[1][1], <<>>))
                              \cap ToSet(job_skills[1][2]))
          ELSE 0)
             + MatchedCount(resume_skills, Tail(job_skills))

\* get_skill_match_percentage on two profiles (dicts category -> list)
get_skill_match_percentage(resume_skills, job_skills) ==
    LET total_job_skills == TotalJobSkills(job_skills)
        matched_skills == MatchedCount(resume_skills, job_skills)
    IN  IF total_job_skills = 0 THEN Return(Rat(0, 1))
        ELSE Return(Rat(RoundPercent(matched_skills, total_job_skills), 100))

priority_categories ==
    <<"programming_languages", "web_technologies", "cloud_devops", "data_science_ml">>

\* One suggestion.  template "learning" is
\*   f"Consider learning {skill} to improve your {category.replace('_', ' ')} skills"
\* and template "adding" is f"Consider adding {skill} to your skillset", whose
\* text does not show the category: the field records where the skill came from.
Suggestion(template, skill, category) ==
    [template |-> template, skill |-> skill, category |-> category]

RECURSIVE PrioritySuggestionsTop3(_, _)
\* PrioritySuggestions taking skills[:3]
PrioritySuggestionsTop3(cats, missing) ==
    IF Len(cats) = 0 THEN <<>>
    ELSE (IF HasKey(missing, cats[1])
          THEN LET skills == Slice(Get(missing, cats[1], <<>>), 3)
               IN  [i \in 1..Len(skills) |-> Suggestion("learning", skills[i], cats[1])]
          ELSE <<>>)
             \o PrioritySuggestionsTop3(Tail(cats), missing)

RECURSIVE PrioritySuggestions(_, _)
\* the loop over priority_categories: skills[:2] of each one present
PrioritySuggestions(cats, missing) ==
    IF Len(cats) = 0 THEN <<>>
    ELSE (IF HasKey(missing, cats[1])
          THEN LET skills == Slice(Get(missing, cats[1], <<>>), 2)
               IN  [i \in 1..Len(skills) |-> Suggestion("learning", skills[i], cats[1])]
          ELSE <<>>)
             \o PrioritySuggestions(Tail(cats), missing)

RECURSIVE RemainingSuggestions(_, _, _, _)
\* the loop over remaining_categories: skills[:1] of each, until
\* len(suggestions) >= num_suggestions
RemainingSuggestions(suggestions, remaining_categories, missing, num) ==
    IF Len(remaining_categories) = 0 THEN suggestions
    ELSE IF Len(suggestions) >= num THEN suggestions
    ELSE LET category == remaining_categories[1]
             skills == Slice(Get(missing, category, <<>>), 1)
         IN  RemainingSuggestions(
                 suggestions \o [i \in 1..Len(skills) |->
                                    Suggestion("adding", skills[i], category)],
                 Tail(remaining_categories), missing, num)

\* the try block of get_skill_suggestions: `category in None` and
\* `len(suggestions) < None` raise TypeError
GetSkillSuggestionsTry(missing, num) ==
    IF missing.type # "dict" THEN Raise("TypeError")
    ELSE LET first == PrioritySuggestions(priority_categories, missing.value)
         IN  IF num.type # "int" THEN Raise("TypeError")
             ELSE LET remaining_categories ==
                          SelectSeq(Keys(missing.value),
                                    LAMBDA cat : cat \notin ToSet(priority_categories))
                      suggestions ==
                          IF Len(first) < num.value
                          THEN RemainingSuggestions(first, remaining_categories,
                                                    missing.value, num.value)
                          ELSE first
                  IN  Return(Slice(suggestions, num.value))

\* get_skill_suggestions: except Exception returns []
get_skill_suggestions(missing, num) ==
    LET r == GetSkillSuggestionsTry(missing, num)
    IN  IF r.kind = "raise" THEN Return(<<>>) ELSE r

(***************************************************************************)
(* State                                                                   *)
(***************************************************************************)

VARIABLES
    resume_text,        \* Skill Analyzer: the resume_text argument
    job_description,    \* Skill Analyzer: the job_description argument
    missing_skills,     \* get_skill_suggestions: the missing_skills argument
    num_suggestions,    \* get_skill_suggestions: the num_suggestions argument
    op,                 \* the Skill Analyzer method that was called, or "none"
    result,             \* its outcome: Return(value) or Raise(exception)
    llm_engine,         \* app.py: whether the global name llm_engine is bound
    ats_score,          \* the ats_score argument
    match_score,        \* get_enhanced_llm_analysis: the match_score argument
    pc,                 \* get_enhanced_llm_analysis: where the call stands
    calls,              \* the LLM operations called so far, in order
    llm_analysis,       \* the local llm_analysis of get_enhanced_llm_analysis
    raised,             \* the exception an LLM call raised, or NoException
    ret,                \* what get_enhanced_llm_analysis returned
    propagated,         \* the exception that left get_enhanced_llm_analysis
    skill_analysis,     \* generate_recommendations: the skill_analysis argument
    llm_improvements,   \* generate_recommendations: the llm_improvements argument
    recommendations,    \* what generate_recommendations returned
    request,            \* the HTTP request being handled
    response,           \* the HTTP status answered
    engine_calls        \* the arguments of each score_engine.analyze_resume call

saVars == <<resume_text, job_description, missing_skills, num_suggestions, op, result>>

llmVars == <<llm_engine, match_score, pc, calls, llm_analysis, raised, ret, propagated>>

recVars == <<skill_analysis, llm_improvements, recommendations>>

httpVars == <<request, response, engine_calls>>

vars == <<saVars, llmVars, recVars, httpVars, ats_score>>

NoResult == [kind |-> "none"]

NoException == [type |-> "none"]

\* the components that a specification leaves alone
IdleSkills ==
    /\ resume_text = None
    /\ job_description = None
    /\ missing_skills = None
    /\ num_suggestions = None
    /\ op = "none"
    /\ result = NoResult

IdleLlm ==
    /\ llm_engine = "undefined"
    /\ match_score = 0
    /\ pc = "idle"
    /\ calls = <<>>
    /\ llm_analysis = None
    /\ raised = NoException
    /\ ret = NoResult
    /\ propagated = NoException

IdleRec ==
    /\ skill_analysis = EmptyDict
    /\ llm_improvements = None
    /\ recommendations = NoResult

IdleHttp ==
    /\ request = NoResult
    /\ response = 0
    /\ engine_calls = <<>>

(***************************************************************************)
(* Skill Analyzer on texts: SpecSkills                                     *)
(***************************************************************************)

\* the longest text, in fragments
MaxFragments == 2

Fragments ==
    { <<"P","y","t","h","o","n",","," ","A","W","S"," ">>, <<"j","a","v","a">>, <<"s","c","r","i","p","t"," ","a","n","d"," ","C","+","+"," ">> }

RECURSIVE TextsOf(_)
\* the concatenations of at most n fragments
TextsOf(n) ==
    IF n = 0 THEN {<<>>}
    ELSE LET shorter == TextsOf(n - 1)
         IN  shorter \cup {t \o f : t \in shorter, f \in Fragments}

\* the texts of test_basic_functionality
TestResume ==
    <<"\n"," "," "," "," "," "," "," "," ","S","e","n","i","o","r"," ","S","o","f","t","w","a","r","e"," ","E","n","g","i","n","e","e","r"," ","w","i","t","h"," ","8"," ","y","e","a","r","s"," ","o","f"," ","e","x","p","e","r","i","e","n","c","e"," ","i","n"," ","P","y","t","h","o","n"," ","a","n","d"," ","w","e","b"," ","d","e","v","e","l","o","p","m","e","n","t",".","\n"," "," "," "," "," "," "," "," ","-"," ","P","r","o","f","i","c","i","e","n","t"," ","i","n"," ","P","y","t","h","o","n",","," ","J","a","v","a","S","c","r","i","p","t",","," ","R","e","a","c","t",","," ","a","n","d"," ","N","o","d","e",".","j","s","\n"," "," "," "," "," "," "," "," ","-"," ","E","x","p","e","r","i","e","n","c","e"," ","w","i","t","h"," ","D","o","c","k","e","r",","," ","K","u","b","e","r","n","e","t","e","s",","," ","a","n","d"," ","A","W","S","\n"," "," "," "," "," "," "," "," ","-"," ","L","e","d"," ","t","e","a","m"," ","o","f"," ","5"," ","d","e","v","e","l","o","p","e","r","s"," ","o","n"," ","a"," ","m","i","c","r","o","s","e","r","v","i","c","e","s"," ","m","i","g","r","a","t","i","o","n"," ","p","r","o","j","e","c","t","\n"," "," "," "," "," "," "," "," ","-"," ","I","m","p","l","e","m","e","n","t","e","d"," ","C","I","/","C","D"," ","p","i","p","e","l","i","n","e","s"," ","u","s","i","n","g"," ","J","e","n","k","i","n","s","\n"," "," "," "," "," "," "," "," ">>

TestJob ==
    <<"\n"," "," "," "," "," "," "," "," ","L","o","o","k","i","n","g"," ","f","o","r"," ","a"," ","S","e","n","i","o","r"," ","S","o","f","t","w","a","r","e"," ","E","n","g","i","n","e","e","r"," ","w","i","t","h",":","\n"," "," "," "," "," "," "," "," ","-"," ","S","t","r","o","n","g"," ","P","y","t","h","o","n"," ","a","n","d"," ","J","a","v","a","S","c","r","i","p","t"," ","e","x","p","e","r","i","e","n","c","e","\n"," "," "," "," "," "," "," "," ","-"," ","E","x","p","e","r","i","e","n","c","e"," ","w","i","t","h"," ","R","e","a","c","t"," ","a","n","d"," ","m","o","d","e","r","n"," ","f","r","o","n","t","e","n","d"," ","f","r","a","m","e","w","o","r","k","s","\n"," "," "," "," "," "," "," "," ","-"," ","D","e","v","O","p","s"," ","e","x","p","e","r","i","e","n","c","e"," ","w","i","t","h"," ","D","o","c","k","e","r"," ","a","n","d"," ","K","u","b","e","r","n","e","t","e","s","\n"," "," "," "," "," "," "," "," ","-"," ","A","W","S"," ","c","l","o","u","d"," ","e","x","p","e","r","i","e","n","c","e","\n"," "," "," "," "," "," "," "," ","-"," ","L","e","a","d","e","r","s","h","i","p"," ","s","k","i","l","l","s"," ","a","n","d"," ","e","x","p","e","r","i","e","n","c","e"," ","m","a","n","a","g","i","n","g"," ","t","e","a","m","s","\n"," "," "," "," "," "," "," "," ">>

\* the arguments: texts, and the ill-typed None and 5
TextValues == {Str(t) : t \in TextsOf(MaxFragments)} \cup {None, PyInt(5)}

InitSkills ==
    /\ \/ resume_text \in TextValues /\ job_description \in TextValues
       \/ resume_text = Str(TestResume) /\ job_description = Str(TestJob)
    /\ missing_skills = None
    /\ num_suggestions = None
    /\ op = "none"
    /\ result = NoResult
    /\ ats_score = 0
    /\ IdleLlm /\ IdleRec /\ IdleHttp

AnalyzeSkills ==
    /\ op = "none"
    /\ op' = "analyze_skills"
    /\ result' = analyze_skills(resume_text, job_description)
    /\ UNCHANGED <<resume_text, job_description, missing_skills, num_suggestions>>
    /\ UNCHANGED <<llmVars, recVars, httpVars, ats_score>>

GetSkillGap ==
    /\ op = "none"
    /\ op' = "get_skill_gap"
    /\ result' = get_skill_gap(resume_text, job_description)
    /\ UNCHANGED <<resume_text, job_description, missing_skills, num_suggestions>>
    /\ UNCHANGED <<llmVars, recVars, httpVars, ats_score>>

\* get_skill_match_percentage on the profiles of the two texts
GetSkillMatchPercentage ==
    /\ op = "none"
    /\ op' = "get_skill_match_percentage"
    /\ result' = get_skill_match_percentage(
                     analyze_skills(resume_text, None).value,
                     analyze_skills(job_description, None).value)
    /\ UNCHANGED <<resume_text, job_description, missing_skills, num_suggestions>>
    /\ UNCHANGED <<llmVars, recVars, httpVars, ats_score>>

NextSkills == AnalyzeSkills \/ GetSkillGap \/ GetSkillMatchPercentage

SpecSkills == InitSkills /\ [][NextSkills]_vars

(***************************************************************************)
(* Claims on the Skill Analyzer (under SpecSkills)                         *)
(***************************************************************************)

\* the taxonomy skills a text mentions, whatever their category
Detected(text) == {s \in all_skills : SearchSkill(s, Lower(text))}

\* analyze_skills was called on a resume text and a non-empty job description
Compared ==
    /\ op = "analyze_skills"
    /\ resume_text.type = "str"
    /\ job_description.type = "str"
    /\ Len(job_description.value) > 0

RECURSIVE Flatten(_)
\* the values of a dict category -> list, as one set
Flatten(d) == IF Len(d) = 0 THEN {} ELSE ToSet(d[1][2]) \cup Flatten(Tail(d))

\* C1: when analyze_skills is called on a resume text and a non-empty job
\* description, the skills of matched_skills and missing_skills together are
\* exactly the skills listed in job_skills, which are exactly the taxonomy
\* skills the job description mentions: none is invented and none is dropped.
C1_MatchedMissingCoverJobSkills ==
    Compared =>
        LET r == result.value
            reported == ToSet(Get(r, "matched_skills", <<>>))
                            \cup ToSet(Get(r, "missing_skills", <<>>))
        IN  /\ result.kind = "return"
            /\ reported = Flatten(Get(r, "job_skills", <<>>))
            /\ reported = Detected(job_description.value)

C1_Witness ==
    /\ Compared
    /\ Len(Get(result.value, "matched_skills", <<>>)) > 0
    /\ Len(Get(result.value, "missing_skills", <<>>)) > 0

\* the share of the job's skills that the resume mentions, in percent
ExactPercentage ==
    LET job == Detected(job_description.value)
        resume == Detected(resume_text.value)
    IN  Rat(100 * Cardinality(job \cap resume), Max(Cardinality(job), 1))

InRange(p) == p.den > 0 /\ RatLe(Rat(0, 1), p) /\ RatLe(p, Rat(100, 1))

\* get_skill_match_percentage was called on the profiles of a resume text and
\* of a non-empty job description
PercentageOfProfiles ==
    /\ op = "get_skill_match_percentage"
    /\ resume_text.type = "str"
    /\ job_description.type = "str"
    /\ Len(job_description.value) > 0

\* p is q rounded to two decimal places
RoundedToHundredths(p, q) ==
    /\ (p.num * 100) % p.den = 0
    /\ LET d == p.num * q.den - q.num * p.den
       IN  200 * d <= p.den * q.den /\ -200 * d <= p.den * q.den

\* C2 (as amended): the skill_match_percentage of analyze_skills is exactly
\* 100 * |matched| / |job skills|, and get_skill_match_percentage returns that
\* value rounded to two decimal places; both lie in [0,100] and both are 0
\* when the job description mentions no taxonomy skill.
C2_PercentageExactOrRounded ==
    /\ Compared =>
          LET p == Get(result.value, "skill_match_percentage", Rat(0, 0))
          IN  /\ InRange(p)
              /\ RatEq(p, ExactPercentage)
              /\ Detected(job_description.value) = {} => p.num = 0
    /\ PercentageOfProfiles =>
          /\ result.kind = "return"
          /\ InRange(result.value)
          /\ RoundedToHundredths(result.value, ExactPercentage)
          /\ Detected(job_description.value) = {} => result.value.num = 0

\* C2 as stated: both percentages are exactly 100 * |matched| / |job skills|.
C2_PercentageExact ==
    /\ Compared =>
          LET p == Get(result.value, "skill_match_percentage", Rat(0, 0))
          IN  InRange(p) /\ RatEq(p, ExactPercentage)
    /\ PercentageOfProfiles =>
          InRange(result.value) /\ RatEq(result.value, ExactPercentage)

\* a percentage that the two decimal places cannot hold, and one with no job skill
C2_Witness ==
    /\ PercentageOfProfiles
    /\ result.kind = "return"
    /\ ~RatEq(result.value, ExactPercentage)

C2_WitnessNoJobSkill ==
    /\ Compared
    /\ Detected(job_description.value) = {}
    /\ Detected(resume_text.value) # {}

\* analyze_skills was called on the texts of test_basic_functionality
TestScenario ==
    /\ op = "analyze_skills"
    /\ resume_text = Str(TestResume)
    /\ job_description = Str(TestJob)

Between50And100(p) == p.den > 0 /\ RatLt(Rat(50, 1), p) /\ RatLt(p, Rat(100, 1))

\* C3 (as amended): on the resume and job description of the test,
\* missing_skills contains "leadership" and does not contain "devops" (which is
\* no term of the taxonomy), and skill_match_percentage is strictly between 50
\* and 100.
C3_ScenarioMissingLeadership ==
    TestScenario =>
        LET missing == ToSet(Get(result.value, "missing_skills", <<>>))
        IN  /\ <<"l","e","a","d","e","r","s","h","i","p">> \in missing
            /\ <<"d","e","v","o","p","s">> \notin missing
            /\ Between50And100(Get(result.value, "skill_match_percentage", Rat(0, 0)))

\* C3 as stated: missing_skills contains both "devops" and "leadership".
C3_ScenarioMissingDevops ==
    TestScenario =>
        LET missing == ToSet(Get(result.value, "missing_skills", <<>>))
        IN  /\ <<"l","e","a","d","e","r","s","h","i","p">> \in missing
            /\ <<"d","e","v","o","p","s">> \in missing
            /\ Between50And100(Get(result.value, "skill_match_percentage", Rat(0, 0)))

C3_Witness ==
    /\ TestScenario
    /\ result.kind = "return"
    /\ Len(Get(result.value, "matched_skills", <<>>)) = 6

\* an argument on which the method's body raises
IllTyped ==
    \/ op = "analyze_skills"
         /\ \/ resume_text.type # "str"
            \/ Truthy(job_description) /\ job_description.type # "str"
    \/ op = "get_skill_gap"
         /\ (resume_text.type # "str" \/ job_description.type # "str")

\* C9: a call of analyze_skills or get_skill_gap with an ill-typed argument
\* (a null text) raises nothing and returns an empty mapping.
C9_EmptyOnInternalError ==
    IllTyped => result.kind = "return" /\ Len(result.value) = 0

C9_Witness ==
    /\ op = "get_skill_gap"
    /\ resume_text = None
    /\ result.kind = "return"
    /\ Len(result.value) > 0

\* term is in text at i, with no word character right before it and none
\* right after it
WholeWordAt(term, text, i) ==
    /\ SubSeq(text, i, i + Len(term) - 1) = term
    /\ ~IsWordAt(text, i - 1)
    /\ ~IsWordAt(text, i + Len(term))

\* the text holds the term as a contiguous whole-word occurrence
WholeWordOccurrence(term, text) ==
    \E i \in 1..(Len(text) - Len(term) + 1) : WholeWordAt(term, text, i)

\* the taxonomy terms with a whole-word occurrence in the lowercased text
WholeWordTerms(text) ==
    {s \in all_skills : WholeWordOccurrence(s, Lower(text))}

\* C11: analyze_skills reports a taxonomy term (as c++, c#, node.js or
\* machine learning) for a text if and only if the lowercased text holds the
\* term as a contiguous occurrence that no word character precedes and no
\* word character follows.
C11_ReportedIffWholeWord ==
    Compared =>
        /\ result.kind = "return"
        /\ Flatten(Get(result.value, "resume_skills", <<>>))
               = WholeWordTerms(resume_text.value)
        /\ Flatten(Get(result.value, "job_skills", <<>>))
               = WholeWordTerms(job_description.value)

\* the job description has c++ as a whole word, followed by a space, and
\* analyze_skills does not report it, while it reports the other terms
C11_Witness ==
    /\ Compared
    /\ result.kind = "return"
    /\ <<"c","+","+">> \in WholeWordTerms(job_description.value)
    /\ <<"c","+","+">> \notin Flatten(Get(result.value, "job_skills", <<>>))
    /\ <<"p","y","t","h","o","n">> \in Flatten(Get(result.value, "job_skills", <<>>))

(***************************************************************************)
(* get_skill_suggestions: SpecSuggest                                      *)
(***************************************************************************)

\* the most categories in a missing-skills mapping
MaxCategories == 3

\* the longest list of missing skills in one category
MaxSkills == 3

\* the largest num_suggestions
MaxLimit == 5

\* two prioritized categories and two others
SuggestCategories == {"cloud_devops", "programming_languages", "databases", "soft_skills"}

\* missing skills in an order that is not the alphabetical one
SkillPool == << <<"p","y","t","h","o","n">>, <<"s","q","l">>, <<"j","a","v","a">>, <<"g","o">>, <<"r">> >>

SkillLists == {Slice(SkillPool, n) : n \in 0..MaxSkills}

RECURSIVE MappingsOf(_)
\* the dicts of at most n categories, in every insertion order
MappingsOf(n) ==
    IF n = 0 THEN {EmptyDict}
    ELSE LET shorter == MappingsOf(n - 1)
         IN  shorter \cup
             UNION {{Append(d, <<c, skills>>) :
                        c \in SuggestCategories \ ToSet(Keys(d)), skills \in SkillLists} :
                    d \in {m \in shorter : Len(m) = n - 1}}

InitSuggest ==
    /\ resume_text = None
    /\ job_description = None
    /\ missing_skills \in {Dict(d) : d \in MappingsOf(MaxCategories)} \cup {None}
    /\ num_suggestions \in {PyInt(n) : n \in -1..MaxLimit} \cup {None}
    /\ op = "none"
    /\ result = NoResult
    /\ ats_score = 0
    /\ IdleLlm /\ IdleRec /\ IdleHttp

GetSkillSuggestions ==
    /\ op = "none"
    /\ op' = "get_skill_suggestions"
    /\ result' = get_skill_suggestions(missing_skills, num_suggestions)
    /\ UNCHANGED <<resume_text, job_description, missing_skills, num_suggestions>>
    /\ UNCHANGED <<llmVars, recVars, httpVars, ats_score>>

NextSuggest == GetSkillSuggestions

SpecSuggest == InitSuggest /\ [][NextSuggest]_vars

(***************************************************************************)
(* Claims on get_skill_suggestions (under SpecSuggest)                     *)
(***************************************************************************)

\* get_skill_suggestions was called on a mapping and a limit >= 0
Suggested ==
    /\ op = "get_skill_suggestions"
    /\ missing_skills.type = "dict"
    /\ num_suggestions.type = "int"
    /\ num_suggestions.value >= 0

IsPriority(c) == c \in ToSet(priority_categories)

\* the place of a prioritized category in priority_categories
PriorityRank(c) == CHOOSE i \in 1..Len(priority_categories) : priority_categories[i] = c

\* the skills suggested from category c, in the order of the suggestions
SuggestedFrom(r, c) ==
    LET picked == SelectSeq(r, LAMBDA s : s.category = c)
    IN  [i \in 1..Len(picked) |-> picked[i].skill]

\* C10: for a missing-skills mapping and a limit >= 0, get_skill_suggestions
\* returns at most limit suggestions; at most 2 come from each prioritized
\* category and at most 1 from each other category; every suggestion from a
\* prioritized category precedes every suggestion from another category; the
\* prioritized categories appear in the order of priority_categories; and the
\* skills of one category are the first skills of its input list, in order.
C10_SuggestionsLimitedAndOrdered ==
    Suggested =>
        /\ result.kind = "return"
        /\ LET r == result.value
               missing == missing_skills.value
           IN  /\ Len(r) <= num_suggestions.value
               /\ \A i \in 1..Len(r) :
                     /\ HasKey(missing, r[i].category)
                     /\ r[i].template = (IF IsPriority(r[i].category)
                                         THEN "learning" ELSE "adding")
               /\ \A c \in ToSet(Keys(missing)) :
                     LET from == SuggestedFrom(r, c)
                     IN  /\ Len(from) <= (IF IsPriority(c) THEN 2 ELSE 1)
                         /\ from = Slice(Get(missing, c, <<>>), Len(from))
               /\ \A i, j \in 1..Len(r) :
                     i < j =>
                        /\ ~(~IsPriority(r[i].category) /\ IsPriority(r[j].category))
                        /\ (IsPriority(r[i].category) /\ IsPriority(r[j].category))
                              => PriorityRank(r[i].category) <= PriorityRank(r[j].category)

\* two prioritized categories and another one, each cut and all suggested
C10_Witness ==
    /\ Suggested
    /\ Len(result.value) = 5
    /\ result.value[1].category = "programming_languages"
    /\ result.value[3].category = "cloud_devops"
    /\ ~IsPriority(result.value[5].category)
    /\ Keys(missing_skills.value)[1] = result.value[5].category
    /\ \A i \in 1..Len(missing_skills.value) : Len(missing_skills.value[i][2]) = 3

(***************************************************************************)
(* backend/app.py: get_enhanced_llm_analysis: SpecLlm                      *)
(***************************************************************************)

\* the exception classes of the model, each with its base class
BaseClass ==
    [Exception |-> "BaseException",
     ValueError |-> "Exception",
     JSONDecodeError |-> "ValueError",
     NameError |-> "Exception",
     OSError |-> "Exception",
     TimeoutError |-> "OSError",
     ConnectionError |-> "OSError"]

RECURSIVE IsInstance(_, _)
\* whether an exception of class type is caught by `except class`
IsInstance(type, class) ==
    \/ type = class
    \/ type \in DOMAIN BaseClass /\ IsInstance(BaseClass[type], class)

\* an exception; str(e) is its message
Exception(type, msg) == [type |-> type, msg |-> msg]

\* the text that the except ValueError clause looks for in str(ve)
RateLimitMarker == <<"R","a","t","e"," ","l","i","m","i","t"," ","e","x","c","e","e","d","e","d">>

\* the returned tuple (llm_analysis, score_matrix, error)
Triple(analysis, matrix, error) ==
    [llm_analysis |-> analysis, score_matrix |-> matrix, error |-> error]

\* the llm_analysis built when the rate limit is hit
FallbackAnalysis(ats) ==
    << <<"strengths",
         << <<"P","r","o","c","e","s","s","e","d"," ","w","i","t","h","o","u","t"," ","e","n","h","a","n","c","e","d"," ","A","I"," ","a","n","a","l","y","s","i","s"," ","d","u","e"," ","t","o"," ","r","a","t","e"," ","l","i","m","i","t","i","n","g">> >> >>,
       <<"improvement_areas",
         << <<"C","o","n","s","i","d","e","r"," ","t","r","y","i","n","g"," ","a","g","a","i","n"," ","l","a","t","e","r"," ","f","o","r"," ","e","n","h","a","n","c","e","d"," ","a","n","a","l","y","s","i","s">> >> >>,
       <<"action_insights",
         << <<"C","o","n","t","i","n","u","e"," ","w","i","t","h"," ","b","a","s","i","c"," ","a","n","a","l","y","s","i","s"," ","f","o","r"," ","n","o","w">> >> >>,
       <<"overall_impression",
         <<"A","n","a","l","y","s","i","s"," ","c","o","m","p","l","e","t","e","d"," ","w","i","t","h"," ","l","i","m","i","t","e","d"," ","A","I"," ","e","n","h","a","n","c","e","m","e","n","t"," ","d","u","e"," ","t","o"," ","s","e","r","v","i","c","e"," ","l","i","m","i","t","a","t","i","o","n","s">> >>,
       <<"match_score", ats>> >>

\* FallbackScoreMatrix scoring with the ATS score alone
FallbackScoreMatrixAtsOnly(ats, match) ==
    << <<"score_matrix",
         << <<"overall_score",
              << <<"score", Rat(ats, 1)>>,
                 <<"analysis", <<"B","a","s","i","c"," ","s","c","o","r","i","n","g"," ","w","i","t","h","o","u","t"," ","e","n","h","a","n","c","e","d"," ","A","I"," ","a","n","a","l","y","s","i","s">> >> >> >> >> >>,
       <<"key_strengths", << <<"B","a","s","i","c"," ","a","n","a","l","y","s","i","s"," ","d","u","e"," ","t","o"," ","r","a","t","e"," ","l","i","m","i","t","i","n","g">> >> >>,
       <<"improvement_opportunities", << <<"T","r","y"," ","a","g","a","i","n"," ","l","a","t","e","r"," ","f","o","r"," ","e","n","h","a","n","c","e","d"," ","a","n","a","l","y","s","i","s">> >> >>,
       <<"action_insights", << <<"C","o","n","t","i","n","u","e"," ","w","i","t","h"," ","b","a","s","i","c"," ","a","n","a","l","y","s","i","s">> >> >> >>

\* the score_matrix built when the rate limit is hit: the overall score is
\* (ats_score + match_score) / 2
FallbackScoreMatrix(ats, match) ==
    << <<"score_matrix",
         << <<"overall_score",
              << <<"score", Rat(ats + match, 2)>>,
                 <<"analysis", <<"B","a","s","i","c"," ","s","c","o","r","i","n","g"," ","w","i","t","h","o","u","t"," ","e","n","h","a","n","c","e","d"," ","A","I"," ","a","n","a","l","y","s","i","s">> >> >> >> >> >>,
       <<"key_strengths", << <<"B","a","s","i","c"," ","a","n","a","l","y","s","i","s"," ","d","u","e"," ","t","o"," ","r","a","t","e"," ","l","i","m","i","t","i","n","g">> >> >>,
       <<"improvement_opportunities", << <<"T","r","y"," ","a","g","a","i","n"," ","l","a","t","e","r"," ","f","o","r"," ","e","n","h","a","n","c","e","d"," ","a","n","a","l","y","s","i","s">> >> >>,
       <<"action_insights", << <<"C","o","n","t","i","n","u","e"," ","w","i","t","h"," ","b","a","s","i","c"," ","a","n","a","l","y","s","i","s">> >> >> >>

FallbackError == <<"R","a","t","e"," ","l","i","m","i","t"," ","e","x","c","e","e","d","e","d","."," ","U","s","i","n","g"," ","b","a","s","i","c"," ","a","n","a","l","y","s","i","s",".">>

\* ExceptClauses without the except Exception clause
ExceptClausesValueErrorOnly(e, ats, match) ==
    IF IsInstance(e.type, "ValueError")
    THEN IF Contains(e.msg, RateLimitMarker)
         THEN Return(Triple(Dict(FallbackAnalysis(ats)),
                            Dict(FallbackScoreMatrix(ats, match)),
                            Str(FallbackError)))
         ELSE Return(Triple(None, None, Str(e.msg)))
    ELSE Raise(e)

\* ExceptClauses returning an empty analysis, and no score matrix, for the
\* failures that are no rate limit
ExceptClausesEmptyAnalysis(e, ats, match) ==
    IF IsInstance(e.type, "ValueError") /\ Contains(e.msg, RateLimitMarker)
    THEN Return(Triple(Dict(FallbackAnalysis(ats)),
                       Dict(FallbackScoreMatrix(ats, match)),
                       Str(FallbackError)))
    ELSE Return(Triple(Dict(EmptyDict), None, Str(e.msg)))

\* the except clauses of get_enhanced_llm_analysis, on exception e of the try
\* block: an exception that no clause names leaves the function
ExceptClauses(e, ats, match) ==
    IF IsInstance(e.type, "ValueError")
    THEN IF Contains(e.msg, RateLimitMarker)
         THEN Return(Triple(Dict(FallbackAnalysis(ats)),
                            Dict(FallbackScoreMatrix(ats, match)),
                            Str(FallbackError)))
         ELSE Return(Triple(None, None, Str(e.msg)))
    ELSE IF IsInstance(e.type, "Exception")
    THEN Return(Triple(None, None, Str(e.msg)))
    ELSE Raise(e)

\* the scores that the callers pass: the tier limits 60 and 80 and their neighbours
ScoreValues == {0, 59, 60, 79, 80, 100}

\* what llm_engine.analyze_resume may return
LlmAnalyses ==
    { Dict(<< <<"strengths", << <<"C","l","e","a","r"," ","s","t","r","u","c","t","u","r","e">> >> >>,
              <<"improvement_areas", << <<"A","d","d"," ","m","e","t","r","i","c","s">> >> >>,
              <<"action_insights", << <<"Q","u","a","n","t","i","f","y"," ","r","e","s","u","l","t","s">> >> >>,
              <<"overall_impression", <<"S","o","l","i","d">> >> >>),
      Dict(EmptyDict) }

\* what llm_engine.analyze_score_matrix may return
ScoreMatrices ==
    { Dict(<< <<"score_matrix",
                << <<"overall_score", << <<"score", Rat(75, 1)>> >> >> >> >> >>) }

ErrorMessages ==
    { <<"R","a","t","e"," ","l","i","m","i","t"," ","e","x","c","e","e","d","e","d">>,
      <<"E","r","r","o","r",":"," ","R","a","t","e"," ","l","i","m","i","t"," ","e","x","c","e","e","d","e","d","."," ","T","r","y"," ","a","g","a","i","n"," ","i","n"," ","2","0","s">>,
      <<"r","a","t","e"," ","l","i","m","i","t"," ","e","x","c","e","e","d","e","d">>,
      <<"I","n","v","a","l","i","d"," ","r","e","s","p","o","n","s","e">> }

\* what an LLM call may raise: a rate limit (a ValueError naming it), a
\* malformed response, a timeout, a network error
LlmExceptions ==
    {Exception(t, m) :
        t \in {"ValueError", "JSONDecodeError", "TimeoutError", "ConnectionError"},
        m \in ErrorMessages}

\* app.py uses the global name llm_engine and never binds it
UnboundName == Exception("NameError", <<"n","a","m","e"," ","'","l","l","m","_","e","n","g","i","n","e","'"," ","i","s"," ","n","o","t"," ","d","e","f","i","n","e","d">>)

InitLlm ==
    /\ llm_engine \in {"undefined", "bound"}
    /\ ats_score \in ScoreValues
    /\ match_score \in ScoreValues
    /\ pc = "start"
    /\ calls = <<>>
    /\ llm_analysis = None
    /\ raised = NoException
    /\ ret = NoResult
    /\ propagated = NoException
    /\ IdleSkills /\ IdleRec /\ IdleHttp

\* Except as a retry loop: the exception is noted and the try block starts
\* again
ExceptRetry(e) ==
    /\ raised' = e
    /\ pc' = "start"
    /\ UNCHANGED <<ret, propagated>>

\* exception e is raised in the try block and the except clauses run
Except(e) ==
    LET r == ExceptClauses(e, ats_score, match_score)
    IN  /\ raised' = e
        /\ pc' = "done"
        /\ ret' = (IF r.kind = "return" THEN r ELSE NoResult)
        /\ propagated' = (IF r.kind = "raise" THEN r.exc ELSE NoException)

\* llm_analysis = llm_engine.analyze_resume(resume_text, job_description)
CallAnalyzeResume ==
    /\ pc = "start"
    /\ \/ /\ llm_engine = "undefined"
          /\ Except(UnboundName)
          /\ UNCHANGED <<calls, llm_analysis>>
       \/ /\ llm_engine = "bound"
          /\ calls' = Append(calls, "analyze_resume")
          /\ \/ /\ llm_analysis' \in LlmAnalyses
                /\ pc' = "analyzed"
                /\ UNCHANGED <<raised, ret, propagated>>
             \/ /\ \E e \in LlmExceptions : Except(e)
                /\ UNCHANGED llm_analysis
    /\ UNCHANGED <<llm_engine, ats_score, match_score, saVars, recVars, httpVars>>

\* score_matrix = llm_engine.analyze_score_matrix(...) and the return
CallAnalyzeScoreMatrix ==
    /\ pc = "analyzed"
    /\ calls' = Append(calls, "analyze_score_matrix")
    /\ \/ /\ \E score_matrix \in ScoreMatrices :
                ret' = Return(Triple(llm_analysis, score_matrix, None))
          /\ pc' = "done"
          /\ UNCHANGED <<raised, propagated>>
       \/ \E e \in LlmExceptions : Except(e)
    /\ UNCHANGED <<llm_engine, llm_analysis, ats_score, match_score, saVars, recVars, httpVars>>

NextLlm == CallAnalyzeResume \/ CallAnalyzeScoreMatrix

SpecLlm == InitLlm /\ [][NextLlm]_vars

(***************************************************************************)
(* Claims on get_enhanced_llm_analysis (under SpecLlm)                     *)
(***************************************************************************)

\* the LLM call signalled a rate limit: a ValueError whose text names it
IsRateLimit(e) == IsInstance(e.type, "ValueError") /\ Contains(e.msg, RateLimitMarker)

\* the overall score of a score matrix
OverallScore(matrix) ==
    Get(Get(Get(matrix, "score_matrix", EmptyDict), "overall_score", EmptyDict),
        "score", Rat(0, 0))

\* C4: when an LLM call signals a rate limit, no exception leaves the step; it
\* returns the fixed placeholder analysis (strengths, improvement_areas,
\* action_insights, overall_impression), an overall score of
\* (ats_score + match_score) / 2, and the rate-limit label as its error, not the
\* null analysis of a generic failure.
C4_RateLimitFallback ==
    IsRateLimit(raised) =>
        /\ pc = "done"
        /\ propagated = NoException
        /\ ret.kind = "return"
        /\ ret.value.llm_analysis.type = "dict"
        /\ LET a == ret.value.llm_analysis.value
           IN  /\ Get(a, "strengths", <<>>) =
                     << <<"P","r","o","c","e","s","s","e","d"," ","w","i","t","h","o","u","t"," ","e","n","h","a","n","c","e","d"," ","A","I"," ","a","n","a","l","y","s","i","s"," ","d","u","e"," ","t","o"," ","r","a","t","e"," ","l","i","m","i","t","i","n","g">> >>
               /\ Get(a, "improvement_areas", <<>>) =
                     << <<"C","o","n","s","i","d","e","r"," ","t","r","y","i","n","g"," ","a","g","a","i","n"," ","l","a","t","e","r"," ","f","o","r"," ","e","n","h","a","n","c","e","d"," ","a","n","a","l","y","s","i","s">> >>
               /\ Get(a, "action_insights", <<>>) =
                     << <<"C","o","n","t","i","n","u","e"," ","w","i","t","h"," ","b","a","s","i","c"," ","a","n","a","l","y","s","i","s"," ","f","o","r"," ","n","o","w">> >>
               /\ Get(a, "overall_impression", <<>>) =
                     <<"A","n","a","l","y","s","i","s"," ","c","o","m","p","l","e","t","e","d"," ","w","i","t","h"," ","l","i","m","i","t","e","d"," ","A","I"," ","e","n","h","a","n","c","e","m","e","n","t"," ","d","u","e"," ","t","o"," ","s","e","r","v","i","c","e"," ","l","i","m","i","t","a","t","i","o","n","s">>
        /\ ret.value.score_matrix.type = "dict"
        /\ LET score == OverallScore(ret.value.score_matrix.value)
           IN  score.den > 0 /\ RatEq(score, Rat(ats_score + match_score, 2))
        /\ ret.value.error = Str(<<"R","a","t","e"," ","l","i","m","i","t"," ","e","x","c","e","e","d","e","d","."," ","U","s","i","n","g"," ","b","a","s","i","c"," ","a","n","a","l","y","s","i","s",".">>)

\* a rate limit at the second call, after an analysis was obtained
C4_Witness ==
    /\ IsRateLimit(raised)
    /\ calls = <<"analyze_resume", "analyze_score_matrix">>
    /\ ats_score # match_score
    /\ raised.msg # RateLimitMarker

\* an LLM call failed for another reason than a rate limit
GenericFailure == Len(calls) > 0 /\ raised # NoException /\ ~IsRateLimit(raised)

\* C5: when an LLM call fails for another reason than a rate limit, the
\* llm_analysis of the result is an empty mapping, never null.
C5_GenericFailureEmptyMapping ==
    GenericFailure =>
        /\ ret.kind = "return"
        /\ ret.value.llm_analysis = Dict(EmptyDict)

C5_Witness ==
    /\ GenericFailure
    /\ raised.type = "TimeoutError"
    /\ ret.kind = "return"
    /\ ret.value.llm_analysis = None

\* C6: whatever the LLM calls do (both succeed, or either one raises a rate
\* limit or any other exception), the step ends by returning a result, and no
\* exception leaves it.
C6_AlwaysReturns ==
    /\ propagated = NoException
    /\ raised # NoException => pc = "done"
    /\ pc = "done" => ret.kind = "return"
    /\ pc # "done" => ENABLED NextLlm

\* a generic failure of the second call, returned as a result
C6_Witness ==
    /\ pc = "done"
    /\ ret.kind = "return"
    /\ raised.type = "ConnectionError"
    /\ Len(calls) = 2

\* C13: in one invocation of get_enhanced_llm_analysis each LLM operation is
\* called at most once, analyze_score_matrix is called only after
\* analyze_resume was called and returned without an exception, and no LLM
\* operation is called once a call has raised: a failure is classified once
\* and nothing is tried again.
C13_NoRetry ==
    [][calls' # calls =>
          /\ raised = NoException
          /\ \E operation \in {"analyze_resume", "analyze_score_matrix"} :
                /\ calls' = Append(calls, operation)
                /\ \A i \in 1..Len(calls) : calls[i] # operation
                /\ operation = "analyze_score_matrix" =>
                      /\ calls = <<"analyze_resume">>
                      /\ llm_analysis \in LlmAnalyses]_vars

\* the first call hit the rate limit and the invocation ended with that one call
C13_Witness ==
    /\ pc = "done"
    /\ calls = <<"analyze_resume">>
    /\ IsRateLimit(raised)
    /\ ret.kind = "return"

\* both LLM calls were made and neither raised
BothCallsCompleted ==
    /\ calls = <<"analyze_resume", "analyze_score_matrix">>
    /\ raised = NoException

\* C14: a triple (llm_analysis, score_matrix, error) returned by
\* get_enhanced_llm_analysis is all or nothing: llm_analysis is None exactly
\* when score_matrix is None, and error is None exactly when both LLM calls
\* completed without an exception. When analyze_resume succeeded and
\* analyze_score_matrix failed with another error than a rate limit, the
\* analysis obtained is dropped and both are None.
C14_AllOrNothing ==
    ret.kind = "return" =>
        /\ (ret.value.llm_analysis = None) <=> (ret.value.score_matrix = None)
        /\ (ret.value.error = None) <=> BothCallsCompleted
        /\ (/\ calls = <<"analyze_resume", "analyze_score_matrix">>
            /\ raised # NoException
            /\ ~IsRateLimit(raised))
              => /\ llm_analysis \in LlmAnalyses
                 /\ ret.value.llm_analysis = None
                 /\ ret.value.score_matrix = None

\* a populated analysis was obtained, the score-matrix call raised a
\* ValueError that names no rate limit, and the triple holds no analysis
C14_Witness ==
    /\ ret.kind = "return"
    /\ calls = <<"analyze_resume", "analyze_score_matrix">>
    /\ llm_analysis.type = "dict"
    /\ Len(llm_analysis.value) > 0
    /\ raised.type = "ValueError"
    /\ ~IsRateLimit(raised)
    /\ ret.value.llm_analysis = None
    /\ ret.value.error = Str(raised.msg)

(***************************************************************************)
(* backend/app.py: generate_recommendations: SpecRec                       *)
(***************************************************************************)

Digits == <<"0", "1", "2", "3", "4", "5", "6", "7", "8", "9">>

RECURSIVE IntToStr(_)
\* str(n) for n >= 0, as the f-strings format len(...)
IntToStr(n) ==
    IF n < 10 THEN <<Digits[n + 1]>>
    ELSE IntToStr(n \div 10) \o <<Digits[(n % 10) + 1]>>

\* the strengths, weaknesses and action items of the ATS score tier
TierStrengths(ats) ==
    IF ats >= 80 THEN << <<"S","t","r","o","n","g"," ","A","T","S"," ","c","o","m","p","a","t","i","b","i","l","i","t","y">> >>
    ELSE IF ats >= 60 THEN << <<"G","o","o","d"," ","b","a","s","i","c"," ","A","T","S"," ","f","o","r","m","a","t","t","i","n","g">> >>
    ELSE <<>>

\* TierWeaknesses with two tiers only: every score below 80 is a weakness
TierWeaknessesBelow80(ats) ==
    IF ats >= 80 THEN <<>> ELSE << <<"N","e","e","d","s"," ","A","T","S"," ","o","p","t","i","m","i","z","a","t","i","o","n">> >>

TierWeaknesses(ats) ==
    IF ats >= 80 THEN <<>>
    ELSE IF ats >= 60 THEN <<>>
    ELSE << <<"N","e","e","d","s"," ","A","T","S"," ","o","p","t","i","m","i","z","a","t","i","o","n">> >>

TierActionItems(ats) ==
    IF ats >= 80 THEN <<>>
    ELSE IF ats >= 60
    THEN << <<"A","d","d"," ","m","o","r","e"," ","i","n","d","u","s","t","r","y","-","s","p","e","c","i","f","i","c"," ","k","e","y","w","o","r","d","s">>,
            <<"E","n","h","a","n","c","e"," ","s","e","c","t","i","o","n"," ","h","e","a","d","e","r","s"," ","f","o","r"," ","b","e","t","t","e","r"," ","v","i","s","i","b","i","l","i","t","y">> >>
    ELSE << <<"A","d","d"," ","r","e","l","e","v","a","n","t"," ","k","e","y","w","o","r","d","s"," ","f","r","o","m"," ","t","h","e"," ","j","o","b"," ","d","e","s","c","r","i","p","t","i","o","n">>,
            <<"I","m","p","r","o","v","e"," ","s","e","c","t","i","o","n"," ","h","e","a","d","e","r","s"," ","(","E","x","p","e","r","i","e","n","c","e",","," ","E","d","u","c","a","t","i","o","n",","," ","S","k","i","l","l","s",")">>,
            <<"U","s","e"," ","b","u","l","l","e","t"," ","p","o","i","n","t","s"," ","f","o","r"," ","b","e","t","t","e","r"," ","r","e","a","d","a","b","i","l","i","t","y">>,
            <<"I","n","c","l","u","d","e"," ","c","o","n","t","a","c","t"," ","i","n","f","o","r","m","a","t","i","o","n"," ","a","n","d"," ","p","r","o","f","e","s","s","i","o","n","a","l"," ","l","i","n","k","s">> >>

\* the skill analysis block: what it adds to each list
SkillStrengths(analysis) ==
    LET matched_skills == Get(analysis, "matched_skills", <<>>)
    IN  IF Len(analysis) > 0 /\ Len(matched_skills) > 0
        THEN << <<"S","t","r","o","n","g"," ","m","a","t","c","h"," ","i","n"," ">> \o IntToStr(Len(matched_skills)) \o <<" ","k","e","y"," ","s","k","i","l","l","s">> >>
        ELSE <<>>

SkillWeaknesses(analysis) ==
    LET missing == Get(analysis, "missing_skills", <<>>)
    IN  IF Len(analysis) > 0 /\ Len(missing) > 0
        THEN << <<"M","i","s","s","i","n","g"," ">> \o IntToStr(Len(missing)) \o <<" ","r","e","l","e","v","a","n","t"," ","s","k","i","l","l","s">> >>
        ELSE <<>>

SkillActionItems(analysis) ==
    LET missing == Get(analysis, "missing_skills", <<>>)
    IN  IF Len(analysis) > 0 /\ Len(missing) > 0
        THEN << <<"C","o","n","s","i","d","e","r"," ","d","e","v","e","l","o","p","i","n","g",":"," ">> \o Join(<<","," ">>, Slice(missing, 3)),
                <<"F","o","c","u","s"," ","o","n"," ","a","c","q","u","i","r","i","n","g"," ","t","h","e"," ","m","i","s","s","i","n","g"," ","t","e","c","h","n","i","c","a","l"," ","s","k","i","l","l","s">>,
                <<"H","i","g","h","l","i","g","h","t"," ","t","r","a","n","s","f","e","r","a","b","l","e"," ","s","k","i","l","l","s"," ","t","h","a","t"," ","c","o","m","p","e","n","s","a","t","e"," ","f","o","r"," ","g","a","p","s">> >>
        ELSE <<>>

\* AlreadyListed comparing without lower()
AlreadyListedCaseSensitive(text, action_items) ==
    \E i \in 1..Len(action_items) : Contains(action_items[i], text)

\* any(text.lower() in item.lower() for item in action_items)
AlreadyListed(text, action_items) ==
    \E i \in 1..Len(action_items) : Contains(Lower(action_items[i]), Lower(text))

RECURSIVE AppendNew(_, _)
\* the two loops that append each text that no action item contains yet
AppendNew(action_items, texts) ==
    IF Len(texts) = 0 THEN action_items
    ELSE AppendNew(IF AlreadyListed(Head(texts), action_items)
                   THEN action_items
                   ELSE Append(action_items, Head(texts)),
                   Tail(texts))

format_recommendations ==
    << <<"U","s","e"," ","c","o","n","s","i","s","t","e","n","t"," ","d","a","t","e"," ","f","o","r","m","a","t","s">>,
       <<"A","d","d"," ","m","o","r","e"," ","b","u","l","l","e","t"," ","p","o","i","n","t","s"," ","f","o","r"," ","a","c","h","i","e","v","e","m","e","n","t","s">>,
       <<"I","n","c","l","u","d","e"," ","c","l","e","a","r"," ","s","e","c","t","i","o","n"," ","h","e","a","d","e","r","s">>,
       <<"A","d","d"," ","q","u","a","n","t","i","f","i","a","b","l","e"," ","a","c","h","i","e","v","e","m","e","n","t","s">> >>

\* generate_recommendations(skill_analysis, ats_score, llm_improvements), with
\* llm_improvements None or a list of str
generate_recommendations(analysis, ats, improvements) ==
    LET builtin == TierActionItems(ats) \o SkillActionItems(analysis)
        merged == IF improvements.type = "list" /\ Len(improvements.value) > 0
                  THEN AppendNew(builtin, improvements.value)
                  ELSE builtin
    IN  [strengths |-> TierStrengths(ats) \o SkillStrengths(analysis),
         weaknesses |-> TierWeaknesses(ats) \o SkillWeaknesses(analysis),
         action_items |-> IF ats < 80
                          THEN AppendNew(merged, format_recommendations)
                          ELSE merged]

List(xs) == [type |-> "list", value |-> xs]

\* the longest list of LLM improvements
MaxImprovements == 2

\* the most missing skills of a skill analysis
MaxMissing == 4

\* LLM improvements: a built-in action item and a format recommendation in
\* another letter case, a part of a built-in item, two spellings of a new
\* text, and the empty text
ImprovementPool ==
    { <<"a","d","d"," ","r","e","l","e","v","a","n","t"," ","k","e","y","w","o","r","d","s"," ","f","r","o","m"," ","t","h","e"," ","j","o","b"," ","d","e","s","c","r","i","p","t","i","o","n">>,
      <<"U","S","E"," ","C","O","N","S","I","S","T","E","N","T"," ","D","A","T","E"," ","F","O","R","M","A","T","S">>,
      <<"s","e","c","t","i","o","n"," ","h","e","a","d","e","r","s">>,
      <<"T","a","i","l","o","r"," ","t","h","e"," ","s","u","m","m","a","r","y">>,
      <<"t","a","i","l","o","r"," ","t","h","e"," ","S","U","M","M","A","R","Y">>,
      <<>> }

RECURSIVE ListsOf(_, _)
\* the lists of at most n elements of S
ListsOf(S, n) ==
    IF n = 0 THEN {<<>>}
    ELSE LET shorter == ListsOf(S, n - 1)
         IN  shorter \cup {Append(xs, x) : xs \in {l \in shorter : Len(l) = n - 1}, x \in S}

MissingPool == << <<"a","w","s">>, <<"d","o","c","k","e","r">>, <<"g","o">>, <<"p","y","t","h","o","n">>, <<"s","q","l">> >>

\* skill analyses: none ({} after an analyzer error), and comparisons with
\* some matched and some missing skills
SkillAnalyses ==
    {EmptyDict} \cup
    { << <<"matched_skills", matched>>, <<"missing_skills", Slice(MissingPool, n)>> >> :
         matched \in {<<>>, << <<"r","e","a","c","t">> >>}, n \in 0..MaxMissing }

InitRec ==
    /\ skill_analysis \in SkillAnalyses
    /\ ats_score \in ScoreValues
    /\ llm_improvements \in
           {List(xs) : xs \in ListsOf(ImprovementPool, MaxImprovements)} \cup {None}
    /\ recommendations = NoResult
    /\ IdleSkills /\ IdleLlm /\ IdleHttp

GenerateRecommendations ==
    /\ recommendations = NoResult
    /\ recommendations' =
           Return(generate_recommendations(skill_analysis, ats_score, llm_improvements))
    /\ UNCHANGED <<skill_analysis, ats_score, llm_improvements, saVars, llmVars, httpVars>>

NextRec == GenerateRecommendations

SpecRec == InitRec /\ [][NextRec]_vars

(***************************************************************************)
(* Claims on generate_recommendations (under SpecRec)                      *)
(***************************************************************************)

\* C7: whatever the skill analysis, the ATS score and the list of LLM
\* improvement strings (with repeated strings, and with built-in
\* recommendations in another letter case), no two entries of the returned
\* action_items are equal when compared without regard to letter case.
C7_NoCaseInsensitiveDuplicate ==
    recommendations.kind = "return" =>
        LET items == recommendations.value.action_items
        IN  \A i, j \in 1..Len(items) :
               i # j => Lower(items[i]) # Lower(items[j])

\* an LLM improvement that repeats a built-in item in another letter case and
\* one that repeats an earlier improvement were both left out, and a new one
\* was added
C7_Witness ==
    /\ recommendations.kind = "return"
    /\ ats_score < 60
    /\ llm_improvements.type = "list"
    /\ Len(llm_improvements.value) = 2
    /\ \E i \in 1..2 :
          llm_improvements.value[i] = <<"a","d","d"," ","r","e","l","e","v","a","n","t"," ","k","e","y","w","o","r","d","s"," ","f","r","o","m"," ","t","h","e"," ","j","o","b"," ","d","e","s","c","r","i","p","t","i","o","n">>
    /\ \E i \in 1..2 : llm_improvements.value[i] = <<"T","a","i","l","o","r"," ","t","h","e"," ","s","u","m","m","a","r","y">>
    /\ \E i \in 1..Len(recommendations.value.action_items) :
          recommendations.value.action_items[i] = <<"T","a","i","l","o","r"," ","t","h","e"," ","s","u","m","m","a","r","y">>
    /\ Len(recommendations.value.action_items) = 4 + 3 + 1 + 4

\* the texts that the score tiers add
MiddleTierActions ==
    << <<"A","d","d"," ","m","o","r","e"," ","i","n","d","u","s","t","r","y","-","s","p","e","c","i","f","i","c"," ","k","e","y","w","o","r","d","s">>,
       <<"E","n","h","a","n","c","e"," ","s","e","c","t","i","o","n"," ","h","e","a","d","e","r","s"," ","f","o","r"," ","b","e","t","t","e","r"," ","v","i","s","i","b","i","l","i","t","y">> >>

LowTierActions ==
    << <<"A","d","d"," ","r","e","l","e","v","a","n","t"," ","k","e","y","w","o","r","d","s"," ","f","r","o","m"," ","t","h","e"," ","j","o","b"," ","d","e","s","c","r","i","p","t","i","o","n">>,
       <<"I","m","p","r","o","v","e"," ","s","e","c","t","i","o","n"," ","h","e","a","d","e","r","s"," ","(","E","x","p","e","r","i","e","n","c","e",","," ","E","d","u","c","a","t","i","o","n",","," ","S","k","i","l","l","s",")">>,
       <<"U","s","e"," ","b","u","l","l","e","t"," ","p","o","i","n","t","s"," ","f","o","r"," ","b","e","t","t","e","r"," ","r","e","a","d","a","b","i","l","i","t","y">>,
       <<"I","n","c","l","u","d","e"," ","c","o","n","t","a","c","t"," ","i","n","f","o","r","m","a","t","i","o","n"," ","a","n","d"," ","p","r","o","f","e","s","s","i","o","n","a","l"," ","l","i","n","k","s">> >>

ScoreTierTexts ==
    { <<"S","t","r","o","n","g"," ","A","T","S"," ","c","o","m","p","a","t","i","b","i","l","i","t","y">>, <<"G","o","o","d"," ","b","a","s","i","c"," ","A","T","S"," ","f","o","r","m","a","t","t","i","n","g">>,
      <<"N","e","e","d","s"," ","A","T","S"," ","o","p","t","i","m","i","z","a","t","i","o","n">> }
        \cup ToSet(MiddleTierActions) \cup ToSet(LowTierActions)

\* the score-tier entries of a list, in the order of the list
ScoreTierEntries(list) == SelectSeq(list, LAMBDA x : x \in ScoreTierTexts)

\* C12: generate_recommendations applies exactly one of three score tiers.
\* With a score >= 80 the only score-tier entry is the strength "Strong ATS
\* compatibility"; with 60 <= score < 80 there are the strength "Good basic
\* ATS formatting", exactly the two middle-tier action items and no
\* score-tier weakness; with a score < 60 there are the weakness "Needs ATS
\* optimization", exactly the four remediation action items and no
\* score-tier strength.
C12_ExclusiveScoreTiers ==
    recommendations.kind = "return" =>
        LET strengths == ScoreTierEntries(recommendations.value.strengths)
            weaknesses == ScoreTierEntries(recommendations.value.weaknesses)
            action_items == ScoreTierEntries(recommendations.value.action_items)
        IN  /\ ats_score >= 80 =>
                  /\ strengths = << <<"S","t","r","o","n","g"," ","A","T","S"," ","c","o","m","p","a","t","i","b","i","l","i","t","y">> >>
                  /\ weaknesses = <<>>
                  /\ action_items = <<>>
            /\ (ats_score >= 60 /\ ats_score < 80) =>
                  /\ strengths = << <<"G","o","o","d"," ","b","a","s","i","c"," ","A","T","S"," ","f","o","r","m","a","t","t","i","n","g">> >>
                  /\ weaknesses = <<>>
                  /\ action_items = MiddleTierActions
            /\ ats_score < 60 =>
                  /\ strengths = <<>>
                  /\ weaknesses = << <<"N","e","e","d","s"," ","A","T","S"," ","o","p","t","i","m","i","z","a","t","i","o","n">> >>
                  /\ action_items = LowTierActions

\* a score of the middle tier next to its upper limit, with missing skills as
\* the only weakness and the two middle-tier items heading the action items
C12_Witness ==
    /\ recommendations.kind = "return"
    /\ ats_score = 79
    /\ Len(recommendations.value.weaknesses) = 1
    /\ Len(recommendations.value.action_items) > 2
    /\ Slice(recommendations.value.action_items, 2) = MiddleTierActions

(***************************************************************************)
(* backend/app.py: the analyze-resume and enhance-resume handlers: SpecHttp *)
(***************************************************************************)

\* a form field, JSON member or uploaded file that the request does not hold
Absent == [type |-> "absent"]

RECURSIVE LStrip(_)
LStrip(s) == IF Len(s) > 0 /\ Head(s) \in SpaceChars THEN LStrip(Tail(s)) ELSE s

RECURSIVE RStrip(_)
RStrip(s) ==
    IF Len(s) > 0 /\ s[Len(s)] \in SpaceChars THEN RStrip(SubSeq(s, 1, Len(s) - 1)) ELSE s

\* str.strip()
Strip(s) == RStrip(LStrip(s))

ALLOWED_EXTENSIONS == { <<"p","d","f">>, <<"t","x","t">>, <<"d","o","c","x">>, <<"d","o","c">> }

\* filename.rsplit('.', 1)[1]: what follows the last dot
AfterLastDot(filename) ==
    LET last == CHOOSE i \in 1..Len(filename) :
                    /\ filename[i] = "."
                    /\ \A j \in (i + 1)..Len(filename) : filename[j] # "."
    IN  SubSeq(filename, last + 1, Len(filename))

allowed_file(filename) ==
    /\ Contains(filename, <<".">>)
    /\ Lower(AfterLastDot(filename)) \in ALLOWED_EXTENSIONS

\* form.get(name, default) and data.get(name, default)
Field(value, default) == IF value = Absent THEN default ELSE value

\* the validation of analyze_resume: the error it answers, or "ok"
\*   if not resume_text or not resume_text.strip(): 400
\*   if not job_description or not job_description.strip(): 400
ValidateAnalyze(text, description) ==
    IF ~Truthy(text) \/ Len(Strip(text.value)) = 0 THEN "Resume text is empty"
    ELSE IF ~Truthy(description) \/ Len(Strip(description.value)) = 0
    THEN "Job description is required"
    ELSE "ok"

\* the validation of enhance_resume:
\*   if not resume_text or not job_description: 400
ValidateEnhance(text, description) ==
    IF ~Truthy(text) \/ ~Truthy(description)
    THEN "Resume text and job description required"
    ELSE "ok"

\* texts of a request: empty, blank, and with content
RequestTexts == { <<>>, <<" ">>, <<" ","\n","\t">>, <<"a">>, <<" ","a"," ">> }

FormValues == {Str(t) : t \in RequestTexts} \cup {Absent}

\* a JSON member may also be null
JsonValues == FormValues \cup {None}

Filenames == { <<"c","v",".","P","D","F">>, <<"c","v",".","e","x","e">>, <<"c","v">>, <<>> }

\* what resume_processor.process_resume may return
ExtractedTexts == {Str(t) : t \in RequestTexts} \cup {None}

AnalyzeRequests ==
    [endpoint : {"analyze-resume"},
     resume_file : {Str(f) : f \in Filenames} \cup {Absent},
     resume_text : FormValues,
     job_description : FormValues]

EnhanceRequests ==
    [endpoint : {"enhance-resume"}, json : {TRUE},
     resume_text : JsonValues,
     job_description : JsonValues]
    \cup {[endpoint |-> "enhance-resume", json |-> FALSE,
           resume_text |-> Absent, job_description |-> Absent]}

InitHttp ==
    /\ request \in AnalyzeRequests \cup EnhanceRequests
    /\ response = 0
    /\ engine_calls = <<>>
    /\ ats_score = 0
    /\ IdleSkills /\ IdleLlm /\ IdleRec

\* score_engine.analyze_resume(resume_text, job_keywords) is called, with the
\* keywords of description, and the rest of the handler runs: 200, or 500 from
\* the handler's except clause when a collaborator raises
CallEngine(text, description) ==
    /\ engine_calls' = Append(engine_calls,
                              [resume_text |-> text, job_description |-> description])
    /\ response' \in {200, 500}

\* analyze_resume() after the resume text was read
AnalyzeWith(text) ==
    LET description == Field(request.job_description, Str(<<>>))
    IN  IF ValidateAnalyze(text, description) = "ok"
        THEN CallEngine(text, description)
        ELSE response' = 400 /\ UNCHANGED engine_calls

\* POST /api/analyze-resume
AnalyzeResume ==
    /\ response = 0
    /\ request.endpoint = "analyze-resume"
    /\ \/ /\ request.resume_file # Absent
          /\ Len(request.resume_file.value) > 0
          /\ allowed_file(request.resume_file.value)
          /\ \/ \E text \in ExtractedTexts : AnalyzeWith(text)
             \/ response' = 500 /\ UNCHANGED engine_calls
       \/ /\ request.resume_file # Absent
          /\ ~(Len(request.resume_file.value) > 0 /\ allowed_file(request.resume_file.value))
          /\ response' = 400
          /\ UNCHANGED engine_calls
       \/ /\ request.resume_file = Absent
          /\ request.resume_text # Absent
          /\ AnalyzeWith(request.resume_text)
       \/ /\ request.resume_file = Absent
          /\ request.resume_text = Absent
          /\ response' = 400
          /\ UNCHANGED engine_calls
    /\ UNCHANGED <<request, ats_score, saVars, llmVars, recVars>>

\* POST /api/enhance-resume
EnhanceResume ==
    /\ response = 0
    /\ request.endpoint = "enhance-resume"
    /\ \/ /\ ~request.json
          /\ response' = 500
          /\ UNCHANGED engine_calls
       \/ /\ request.json
          /\ LET text == Field(request.resume_text, Str(<<>>))
                 description == Field(request.job_description, Str(<<>>))
             IN  IF ValidateEnhance(text, description) = "ok"
                 THEN CallEngine(text, description)
                 ELSE response' = 400 /\ UNCHANGED engine_calls
    /\ UNCHANGED <<request, ats_score, saVars, llmVars, recVars>>

NextHttp == AnalyzeResume \/ EnhanceResume

SpecHttp == InitHttp /\ [][NextHttp]_vars

(***************************************************************************)
(* Claims on the handlers (under SpecHttp)                                 *)
(***************************************************************************)

\* a text that is missing, empty or only whitespace
Blank(v) == v.type # "str" \/ Len(Strip(v.value)) = 0

\* C8: in a request to analyze-resume or to enhance-resume,
\* score_engine.analyze_resume is never called with a resume text or a job
\* description that is missing, empty or only whitespace.
C8_EngineNeverSeesBlank ==
    \A i \in 1..Len(engine_calls) :
        /\ ~Blank(engine_calls[i].resume_text)
        /\ ~Blank(engine_calls[i].job_description)

\* enhance-resume passed a resume text of whitespace to the engine
C8_Witness ==
    /\ request.endpoint = "enhance-resume"
    /\ Len(engine_calls) = 1
    /\ engine_calls[1].resume_text = Str(<<" ","\n","\t">>)
    /\ response = 200

=============================================================================
